---- MODULE Spec2Model ----
(***************************************************************************)
(* Model of gcpdiag/queries/notebooks.py: the Vertex AI Workbench          *)
(* notebooks queries get_instances and get_instance_health_state, the      *)
(* Instance resource view and the InstanceHealthStateEnum.                 *)
(*                                                                         *)
(* A Python str whose characters matter (resource names, project ids) is a *)
(* sequence of one-character strings; dict keys, enum values, log messages *)
(* and exception names are TLA+ strings.  A Python dict is a function      *)
(* whose DOMAIN is its key set.                                            *)
(***************************************************************************)
EXTENDS Integers, Sequences, FiniteSets, TLC

VARIABLES
  enabledApis,   \* project id -> set of service names enabled for it
  cache,         \* the memoizing cache: call key -> stored outcome
  trace,         \* history: call key -> network calls issued, first outcome
  last,          \* observation of the most recent invocation
  ncalls,        \* number of invocations made so far
  inst,          \* an Instance whose paths are read (short_path development)
  shown          \* what reading its short_path gave

vars == <<enabledApis, cache, trace, last, ncalls, inst, shown>>

----------------------------------------------------------------------------
(* Bounds *)

MaxRecords == 2      \* longest 'instances' list in a listing response
MaxCalls == 2        \* invocations per execution context

----------------------------------------------------------------------------
(* Module constants and string literals *)

HEALTH_STATE_KEY == "healthState"
INSTANCES_KEY == "instances"
NAME_KEY == "name"

Str_projects == <<"p", "r", "o", "j", "e", "c", "t", "s">>
Str_locations == <<"l", "o", "c", "a", "t", "i", "o", "n", "s">>
Str_instances == <<"i", "n", "s", "t", "a", "n", "c", "e", "s">>
Slash == <<"/">>

\* the three patterns of short_path
Pat_projects == Str_projects \o Slash
Pat_locations == Slash \o Str_locations \o Slash
Pat_instances == Slash \o Str_instances \o Slash

----------------------------------------------------------------------------
(* re.sub on literal patterns *)

StartsWith(s, pat) ==
  /\ Len(s) >= Len(pat)
  /\ SubSeq(s, 1, Len(pat)) = pat

Drop(s, n) == SubSeq(s, n + 1, Len(s))

\* re.sub(r'^pat', repl, s): the anchor matches at position 0 only
ReSubAnchored(pat, repl, s) ==
  IF StartsWith(s, pat) THEN repl \o Drop(s, Len(pat)) ELSE s

\* re.sub(r'pat', repl, s): every non-overlapping match, leftmost first
RECURSIVE ReSub(_, _, _)
ReSub(pat, repl, s) ==
  IF Len(s) < Len(pat) THEN s
  ELSE IF StartsWith(s, pat) THEN repl \o ReSub(pat, repl, Drop(s, Len(pat)))
  ELSE <<Head(s)>> \o ReSub(pat, repl, Tail(s))

----------------------------------------------------------------------------
(* class Instance *)

Instance(project_id, resource_data) ==
  [project_id |-> project_id, resource_data |-> resource_data]

full_path(self) == self.resource_data[NAME_KEY]

short_path_unanchored(self) ==
  ReSub(Pat_instances, Slash,
    ReSub(Pat_locations, Slash,
      ReSub(Pat_projects, <<>>, full_path(self))))

short_path(self) ==
  ReSub(Pat_instances, Slash,
    ReSub(Pat_locations, Slash,
      ReSubAnchored(Pat_projects, <<>>, full_path(self))))

----------------------------------------------------------------------------
(* class InstanceHealthStateEnum *)

Return(value) == [kind |-> "return", value |-> value]
Raise(exc, detail) == [kind |-> "raise", exc |-> exc, detail |-> detail]

\* the members of the enum: name and backing value
HealthStateMembers ==
  { [name |-> "HEALTH_STATE_UNSPECIFIED", value |-> "HEALTH_STATE_UNSPECIFIED"],
    [name |-> "HEALTHY", value |-> "HEALTHY"],
    [name |-> "UNHEALTHY", value |-> "UNHEALTHY"],
    [name |-> "AGENT_NOT_INSTALLED", value |-> "AGENT_NOT_INSTALLED"],
    [name |-> "AGENT_NOT_RUNNING", value |-> "AGENT_NOT_RUNNING"] }

\* InstanceHealthStateEnum(value): lookup of a member by value, ValueError
\* when no member has it
InstanceHealthStateEnum(value) ==
  IF \E m \in HealthStateMembers : m.value = value
  THEN Return(CHOOSE m \in HealthStateMembers : m.value = value)
  ELSE Raise("ValueError", [value |-> value])

----------------------------------------------------------------------------
(* The collaborators: capability check, API client, remote service *)

ProjectIds == { <<"p", "1">>, <<"p", "2">> }
Contexts == { [project_id |-> p] : p \in ProjectIds }

\* apis.is_enabled(project_id, service_name)
is_enabled(project_id, service_name) == service_name \in enabledApis[project_id]

InstancePath(p, l, i) ==
  Str_projects \o Slash \o p \o Slash \o Str_locations \o Slash \o l
    \o Slash \o Str_instances \o Slash \o i

NameA == InstancePath(<<"p", "1">>, <<"l", "1">>, <<"i", "1">>)
NameB == InstancePath(<<"p", "1">>, <<"l", "1">>, <<"i", "2">>)

\* 'name' values the listing may carry
RecordNames == { NameA, NameB, <<>> }

\* the records of a listing response: with a name, or without one
Records ==
  { [name |-> n, state |-> "ACTIVE"] : n \in RecordNames }
    \cup { [state |-> "ACTIVE"] }

SeqsUpTo(S, n) == UNION { [1..k -> S] : k \in 0..n }

\* the bodies a successful list call may return
ListResponses ==
  { <<>>, [unreachable |-> <<>>] }
    \cup { [instances |-> s] : s \in SeqsUpTo(Records, MaxRecords) }

\* the bodies a successful getInstanceHealth call may return
HealthResponses ==
  { <<>> }
    \cup { [healthState |-> m.value] : m \in HealthStateMembers }
    \cup { [healthState |-> "FOO"], [healthState |-> "healthy"] }

\* googleapiclient.errors.HttpError instances
HttpErrors == { [status |-> 403], [status |-> 429] }

\* what query.execute() does: returns a body or raises HttpError
Executions(responses) ==
  { Return(r) : r \in responses } \cup { Raise("HttpError", e) : e \in HttpErrors }

\* the name argument of get_instance_health_state: None or a str
NameArgs ==
  { [none |-> TRUE, str |-> <<>>], [none |-> FALSE, str |-> <<>>],
    [none |-> FALSE, str |-> NameA] }

\* Python truthiness of the name argument
Truthy(name) == ~name.none /\ Len(name.str) > 0

\* what one run of a function body did
Ran(outcome, get_api_calls, executed, logs) ==
  [outcome |-> outcome, get_api_calls |-> get_api_calls,
   executed |-> executed, logs |-> logs]

Log(level, msg) == [level |-> level, msg |-> msg]

\* except googleapiclient.errors.HttpError as err: raise utils.GcpApiError(err)
ExceptHttpError_catchAll(tried) ==
  IF tried.kind = "raise"
  THEN Raise("GcpApiError", [err |-> tried.detail])
  ELSE tried

ExceptHttpError(tried) ==
  IF tried.kind = "raise" /\ tried.exc = "HttpError"
  THEN Raise("GcpApiError", [err |-> tried.detail])
  ELSE tried

----------------------------------------------------------------------------
(* get_instances *)

\* if not apis.is_enabled(context.project_id, 'notebooks')
NotEnabled_inverted(context) == is_enabled(context.project_id, "notebooks")

NotEnabled(context) == ~is_enabled(context.project_id, "notebooks")

\* notebooks_api.projects().locations().instances().list(parent=...)
ListQuery_noWildcard(context) ==
  [method |-> "projects.locations.instances.list",
   kwargs |-> [parent |-> Str_projects \o Slash \o context.project_id],
   num_retries |-> "config.API_RETRIES"]

ListQuery(context) ==
  [method |-> "projects.locations.instances.list",
   kwargs |-> [parent |-> Str_projects \o Slash \o context.project_id
                            \o Slash \o Str_locations \o Slash \o <<"-">>],
   num_retries |-> "config.API_RETRIES"]

\* instances[key] = value
DictSet(d, key, value) ==
  [k \in DOMAIN d \cup {key} |-> IF k = key THEN value ELSE d[k]]

\* the loop over resp['instances'], from record k on, instances built so far
RECURSIVE CollectFrom(_, _, _, _)
CollectFrom(project_id, records, k, instances) ==
  IF k > Len(records) THEN Return(instances)
  ELSE IF NAME_KEY \notin DOMAIN records[k]
  THEN Raise("RuntimeError",
         [msg |-> "missing instance name in projects.locations.instances.list response"])
  ELSE LET i == Instance(project_id, records[k])
       IN CollectFrom(project_id, records, k + 1,
                      DictSet(instances, full_path(i), i))

\* a loop that skips a record without a name
RECURSIVE CollectFrom_skipping(_, _, _, _)
CollectFrom_skipping(project_id, records, k, instances) ==
  IF k > Len(records) THEN Return(instances)
  ELSE IF NAME_KEY \notin DOMAIN records[k]
  THEN CollectFrom_skipping(project_id, records, k + 1, instances)
  ELSE LET i == Instance(project_id, records[k])
       IN CollectFrom_skipping(project_id, records, k + 1,
                               DictSet(instances, full_path(i), i))

\* a loop that keys the mapping by short_path
RECURSIVE CollectFrom_shortKey(_, _, _, _)
CollectFrom_shortKey(project_id, records, k, instances) ==
  IF k > Len(records) THEN Return(instances)
  ELSE IF NAME_KEY \notin DOMAIN records[k]
  THEN Raise("RuntimeError",
         [msg |-> "missing instance name in projects.locations.instances.list response"])
  ELSE LET i == Instance(project_id, records[k])
       IN CollectFrom_shortKey(project_id, records, k + 1,
                               DictSet(instances, short_path(i), i))

CollectInstances_skipping(project_id, records) ==
  CollectFrom_skipping(project_id, records, 1, <<>>)

CollectInstances_shortKey(project_id, records) ==
  CollectFrom_shortKey(project_id, records, 1, <<>>)

\* for resp_i in resp[INSTANCES_KEY]: ... with instances = {} at entry
CollectInstances(project_id, records) ==
  CollectFrom(project_id, records, 1, <<>>)

\* the body of the try block, given what query.execute() did
ListTry(context, ex) ==
  IF ex.kind = "raise" THEN ex
  ELSE IF INSTANCES_KEY \notin DOMAIN ex.value THEN Return(<<>>)
  ELSE CollectInstances(context.project_id, ex.value[INSTANCES_KEY])

\* the function body; ex is what the one query.execute() call does
get_instances(context, ex) ==
  IF NotEnabled(context)
  THEN Ran(Return(<<>>), 0, <<>>, <<>>)
  ELSE Ran(ExceptHttpError(ListTry(context, ex)), 1,
           << [query |-> ListQuery(context), result |-> ex] >>,
           << Log("info", "fetching list of Vertex AI Workbench notebook instances in project %s") >>)

----------------------------------------------------------------------------
(* get_instance_health_state *)

\* the two guards: the logs of the early return taken, <<>> when both pass
HealthGuard_nameFirst(context, name) ==
  IF ~Truthy(name)
  THEN << Log("error", "Instance name not provided") >>
  ELSE IF ~is_enabled(context.project_id, "notebooks")
  THEN << Log("error", "Notebooks API is not enabled") >>
  ELSE <<>>

HealthGuard(context, name) ==
  IF ~is_enabled(context.project_id, "notebooks")
  THEN << Log("error", "Notebooks API is not enabled") >>
  ELSE IF ~Truthy(name)
  THEN << Log("error", "Instance name not provided") >>
  ELSE <<>>

\* notebooks_api.projects().locations().instances().getInstanceHealth(name=name)
HealthQuery(name) ==
  [method |-> "projects.locations.instances.getInstanceHealth",
   kwargs |-> [name |-> name.str],
   num_retries |-> "config.API_RETRIES"]

\* the body of the try block, given what query.execute() did
HealthTry_defaulting(ex) ==
  IF ex.kind = "raise" THEN ex
  ELSE IF HEALTH_STATE_KEY \notin DOMAIN ex.value
  THEN Raise("RuntimeError",
         [msg |-> "missing instance health state in projects.locations.instances:getInstanceHealth response"])
  ELSE IF InstanceHealthStateEnum(ex.value[HEALTH_STATE_KEY]).kind = "raise"
  THEN InstanceHealthStateEnum("HEALTH_STATE_UNSPECIFIED")
  ELSE InstanceHealthStateEnum(ex.value[HEALTH_STATE_KEY])

HealthTry(ex) ==
  IF ex.kind = "raise" THEN ex
  ELSE IF HEALTH_STATE_KEY \notin DOMAIN ex.value
  THEN Raise("RuntimeError",
         [msg |-> "missing instance health state in projects.locations.instances:getInstanceHealth response"])
  ELSE InstanceHealthStateEnum(ex.value[HEALTH_STATE_KEY])

\* the function body; ex is what the one query.execute() call does
get_instance_health_state(context, name, ex) ==
  IF HealthGuard(context, name) # <<>>
  THEN Ran(InstanceHealthStateEnum("HEALTH_STATE_UNSPECIFIED"), 0, <<>>,
           HealthGuard(context, name))
  ELSE Ran(ExceptHttpError(HealthTry(ex)), 1,
           << [query |-> HealthQuery(name), result |-> ex] >>,
           << Log("info", "fetching Vertex AI user-managed notebook instance health state in project %s") >>)

----------------------------------------------------------------------------
(* @caching.cached_api_call *)

\* the cache key: function identity and argument tuple
CacheKey(func, args) == [func |-> func, args |-> args]

\* the wrapper: a stored outcome is given back without running the body,
\* otherwise the body runs and its outcome is stored
cached_api_call(func, args, ran) ==
  IF CacheKey(func, args) \in DOMAIN cache
  THEN [hit |-> TRUE, outcome |-> cache[CacheKey(func, args)],
        get_api_calls |-> 0, executed |-> <<>>, logs |-> <<>>,
        cache |-> cache]
  ELSE [hit |-> FALSE, outcome |-> ran.outcome,
        get_api_calls |-> ran.get_api_calls, executed |-> ran.executed,
        logs |-> ran.logs,
        cache |-> DictSet(cache, CacheKey(func, args), ran.outcome)]

\* get_instances as callers see it
cached_get_instances(context, ex) ==
  cached_api_call("get_instances", <<context>>, get_instances(context, ex))

\* get_instance_health_state without its decorator
cached_get_instance_health_state_undecorated(context, name, ex) ==
  [hit |-> FALSE,
   outcome |-> get_instance_health_state(context, name, ex).outcome,
   get_api_calls |-> get_instance_health_state(context, name, ex).get_api_calls,
   executed |-> get_instance_health_state(context, name, ex).executed,
   logs |-> get_instance_health_state(context, name, ex).logs,
   cache |-> cache]

\* get_instance_health_state as callers see it
cached_get_instance_health_state(context, name, ex) ==
  cached_api_call("get_instance_health_state", <<context, name>>,
                  get_instance_health_state(context, name, ex))

----------------------------------------------------------------------------
(* The execution context: a sequence of invocations *)

NoCall == CacheKey("none", <<>>)

\* the history kept for a key after one more invocation r
Traced(key, r) ==
  IF key \in DOMAIN trace
  THEN [trace EXCEPT ![key].net = @ + Len(r.executed)]
  ELSE DictSet(trace, key, [net |-> Len(r.executed), first |-> r.outcome])

Observed(key, r) ==
  [key |-> key, hit |-> r.hit, outcome |-> r.outcome,
   get_api_calls |-> r.get_api_calls, executed |-> r.executed,
   logs |-> r.logs]

SomeInstance == Instance(<<"p", "1">>, [name |-> NameA])
NotRead == [read |-> FALSE, value |-> <<>>]

Init ==
  /\ enabledApis \in [ProjectIds -> SUBSET {"notebooks"}]
  /\ cache = <<>>
  /\ trace = <<>>
  /\ last = Observed(NoCall, [hit |-> FALSE, outcome |-> Return(<<>>),
                              get_api_calls |-> 0, executed |-> <<>>,
                              logs |-> <<>>])
  /\ ncalls = 0
  /\ inst = SomeInstance
  /\ shown = NotRead

GetInstances(context, ex) ==
  /\ ncalls < MaxCalls
  /\ LET r == cached_get_instances(context, ex)
         key == CacheKey("get_instances", <<context>>)
     IN /\ cache' = r.cache
        /\ trace' = Traced(key, r)
        /\ last' = Observed(key, r)
  /\ ncalls' = ncalls + 1
  /\ UNCHANGED <<enabledApis, inst, shown>>

GetInstanceHealthState(context, name, ex) ==
  /\ ncalls < MaxCalls
  /\ LET r == cached_get_instance_health_state(context, name, ex)
         key == CacheKey("get_instance_health_state", <<context, name>>)
     IN /\ cache' = r.cache
        /\ trace' = Traced(key, r)
        /\ last' = Observed(key, r)
  /\ ncalls' = ncalls + 1
  /\ UNCHANGED <<enabledApis, inst, shown>>

Next ==
  \/ \E context \in Contexts, ex \in Executions(ListResponses) :
       GetInstances(context, ex)
  \/ \E context \in Contexts, name \in NameArgs,
        ex \in Executions(HealthResponses) :
       GetInstanceHealthState(context, name, ex)

Spec == Init /\ [][Next]_vars

----------------------------------------------------------------------------
(* Reading the paths of an Instance *)

\* slash-free path segments, the label words among them
Segments ==
  { <<>>, <<"p", "1">>, <<"l", "1">>, <<"i", "1">>,
    Str_projects, Str_locations, Str_instances }

InitPaths ==
  /\ enabledApis = [p \in ProjectIds |-> {"notebooks"}]
  /\ cache = <<>>
  /\ trace = <<>>
  /\ last = Observed(NoCall, [hit |-> FALSE, outcome |-> Return(<<>>),
                              get_api_calls |-> 0, executed |-> <<>>,
                              logs |-> <<>>])
  /\ ncalls = 0
  /\ \E p \in Segments, l \in Segments, i \in Segments :
       inst = Instance(p, [name |-> InstancePath(p, l, i)])
  /\ shown = NotRead

ReadShortPath ==
  /\ ~shown.read
  /\ shown' = [read |-> TRUE, value |-> short_path(inst)]
  /\ UNCHANGED <<enabledApis, cache, trace, last, ncalls, inst>>

NextPaths == ReadShortPath

SpecPaths == InitPaths /\ [][NextPaths]_vars

----------------------------------------------------------------------------
(* Properties *)

IsList == last.key.func = "get_instances"
IsHealth == last.key.func = "get_instance_health_state"
LastProject == last.key.args[1].project_id
LastName == last.key.args[2]
LastEnabled == "notebooks" \in enabledApis[LastProject]

\* this invocation executed one query, and query.execute() returned a body
GotResponse == Len(last.executed) = 1 /\ last.executed[1].result.kind = "return"
LastResponse == last.executed[1].result.value

NamesOf(records) == { records[k].name : k \in 1..Len(records) }
AllNamed(records) == \A k \in 1..Len(records) : "name" \in DOMAIN records[k]

FiveTags ==
  { "HEALTH_STATE_UNSPECIFIED", "HEALTHY", "UNHEALTHY", "AGENT_NOT_INSTALLED",
    "AGENT_NOT_RUNNING" }

Unspecified ==
  [name |-> "HEALTH_STATE_UNSPECIFIED", value |-> "HEALTH_STATE_UNSPECIFIED"]

\* C1: for an enabled project and a listing response whose records all carry
\* 'name', get_instances returns a mapping whose key set is the set of 'name'
\* values and whose Instance under each key has full_path equal to the key;
\* a response without 'instances' yields the empty mapping.
C1_KeysAreNames ==
  (IsList /\ GotResponse) =>
    /\ "instances" \notin DOMAIN LastResponse => last.outcome = Return(<<>>)
    /\ ("instances" \in DOMAIN LastResponse /\ AllNamed(LastResponse.instances)) =>
         /\ last.outcome.kind = "return"
         /\ DOMAIN last.outcome.value = NamesOf(LastResponse.instances)
         /\ \A key \in DOMAIN last.outcome.value :
              last.outcome.value[key].resource_data["name"] = key

C1_Witness ==
  /\ IsList /\ GotResponse
  /\ "instances" \in DOMAIN LastResponse
  /\ AllNamed(LastResponse.instances)
  /\ Cardinality(NamesOf(LastResponse.instances)) = 2
  /\ last.outcome.kind = "return"
  /\ Cardinality(DOMAIN last.outcome.value) = 2

\* C2: when the notebooks API is not enabled for the project, get_instances
\* returns the empty mapping, obtains no API client and executes no call.
C2_DisabledListsNothing ==
  (IsList /\ ~LastEnabled) =>
    /\ last.outcome = Return(<<>>)
    /\ last.get_api_calls = 0
    /\ last.executed = <<>>

C2_Witness ==
  /\ IsList /\ ~LastEnabled /\ ~last.hit
  /\ last.outcome = Return(<<>>)

\* C3: when any record of the listing response lacks 'name', at whatever
\* position, get_instances raises the internal error (RuntimeError, not
\* GcpApiError) and returns no mapping.
C3_MissingNameAborts ==
  (/\ IsList /\ GotResponse
   /\ "instances" \in DOMAIN LastResponse
   /\ ~AllNamed(LastResponse.instances)) =>
    /\ last.outcome.kind = "raise"
    /\ last.outcome.exc = "RuntimeError"

C3_Witness ==
  /\ IsList /\ GotResponse
  /\ "instances" \in DOMAIN LastResponse
  /\ Len(LastResponse.instances) = 2
  /\ "name" \in DOMAIN LastResponse.instances[1]
  /\ "name" \notin DOMAIN LastResponse.instances[2]
  /\ last.outcome.kind = "raise"

C5_HealthStateExact ==
  (IsHealth /\ GotResponse) =>
    /\ \A T \in FiveTags :
         (last.outcome.kind = "return" /\ last.outcome.value.name = T)
           <=> ("healthState" \in DOMAIN LastResponse
                /\ LastResponse.healthState = T)
    /\ ("healthState" \notin DOMAIN LastResponse
        \/ LastResponse.healthState \notin FiveTags) =>
         last.outcome.kind = "raise"
    /\ last.outcome.kind = "return" => last.outcome.value.name \in FiveTags

C5_Witness ==
  /\ IsHealth /\ GotResponse
  /\ "healthState" \in DOMAIN LastResponse
  /\ LastResponse.healthState = "FOO"
  /\ last.outcome.kind = "raise"
  /\ last.outcome.exc = "ValueError"

\* C6: in both functions, an HttpError raised by query.execute() reaches the
\* caller as GcpApiError wrapping that error and never as a returned value,
\* and an invocation whose query succeeded never raises GcpApiError.
C6_HttpErrorBecomesGcpApiError ==
  (last.key.func # "none" /\ Len(last.executed) = 1) =>
    /\ last.executed[1].result.kind = "raise" =>
         last.outcome =
           [kind |-> "raise", exc |-> "GcpApiError",
            detail |-> [err |-> last.executed[1].result.detail]]
    /\ last.executed[1].result.kind = "return" =>
         ~(last.outcome.kind = "raise" /\ last.outcome.exc = "GcpApiError")

C6_Witness ==
  /\ IsList
  /\ Len(last.executed) = 1
  /\ last.executed[1].result = [kind |-> "raise", exc |-> "HttpError",
                                detail |-> [status |-> 429]]
  /\ last.outcome.kind = "raise"
  /\ last.outcome.exc = "GcpApiError"

C8_FullPathNonEmpty ==
  (IsList /\ last.outcome.kind = "return") =>
    \A key \in DOMAIN last.outcome.value :
      /\ "name" \in DOMAIN last.outcome.value[key].resource_data
      /\ Len(last.outcome.value[key].resource_data["name"]) > 0

\* C9: for a full_path projects/{p}/locations/{l}/instances/{i} with
\* slash-free segments, the label words among them, short_path is p/l/i.
C9_ShortPath ==
  shown.read =>
    \A p \in Segments, l \in Segments, i \in Segments :
      inst.resource_data["name"] = InstancePath(p, l, i) =>
        shown.value = p \o <<"/">> \o l \o <<"/">> \o i

C9_Witness ==
  /\ shown.read
  /\ inst.resource_data["name"] =
       InstancePath(Str_projects, Str_locations, Str_instances)
  /\ shown.value = Str_projects \o <<"/">> \o Str_locations \o <<"/">> \o Str_instances

\* C10: an uncached invocation that passes its guards executes exactly one
\* query: list with parent projects/{project}/locations/- for get_instances,
\* getInstanceHealth with the given name for get_instance_health_state; the
\* mapping returned is built from the records of that one response.
C10_OneQuery ==
  /\ (IsList /\ ~last.hit /\ LastEnabled) =>
       /\ Len(last.executed) = 1
       /\ last.get_api_calls = 1
       /\ last.executed[1].query.method = "projects.locations.instances.list"
       /\ last.executed[1].query.kwargs.parent =
            <<"p", "r", "o", "j", "e", "c", "t", "s", "/">> \o LastProject
              \o <<"/", "l", "o", "c", "a", "t", "i", "o", "n", "s", "/", "-">>
       /\ last.outcome.kind = "return" =>
            /\ last.executed[1].result.kind = "return"
            /\ \A key \in DOMAIN last.outcome.value :
                 /\ "instances" \in DOMAIN LastResponse
                 /\ \E k \in 1..Len(LastResponse.instances) :
                      LastResponse.instances[k] = last.outcome.value[key].resource_data
  /\ (IsHealth /\ ~last.hit /\ LastEnabled /\ ~LastName.none /\ LastName.str # <<>>) =>
       /\ Len(last.executed) = 1
       /\ last.get_api_calls = 1
       /\ last.executed[1].query.method =
            "projects.locations.instances.getInstanceHealth"
       /\ last.executed[1].query.kwargs.name = LastName.str

C10_Witness ==
  /\ IsList /\ ~last.hit /\ LastEnabled
  /\ Len(last.executed) = 1
  /\ last.executed[1].result.kind = "raise"
  /\ last.outcome.kind = "raise"

====
